---------------------------- MODULE Spec2Model ----------------------------
(***************************************************************************)
(* State-machine model of the QA dashboard (src/src/App.jsx): the seeded   *)
(* generator rnd, the daily series builder genSeries, the reducer          *)
(* aggregate, and the App component's selection state with its memoised    *)
(* series, totals and recent-defects table.                                *)
(*                                                                         *)
(* Numbers.  JavaScript numbers are binary64.  Every product formed by     *)
(* rnd is below 2^46 and therefore exact, so the recurrence is the exact   *)
(* integer one.  The model checker's integers are 32 bits wide, so the     *)
(* same values are evaluated here without forming a product above 2^31:    *)
(* nextSeed by Schrage's decomposition, floorScale by splitting the seed   *)
(* in 16-bit halves.  Math.floor(seed / 2147483647 * n) equals the integer *)
(* quotient (seed * n) div 2147483647 for every n the model uses: the      *)
(* exact quotient is at least 1/2147483647 away from the next integer,     *)
(* far more than the rounding error of the two binary64 operations.        *)
(*                                                                         *)
(* Time.  An instant is a whole number of hours since an epoch, in UTC.    *)
(* A Date's local fields are those of instant + zone, zone being the       *)
(* (fixed) offset of the local time zone in hours.  A date string          *)
(* YYYY-MM-DD is represented by its day number, instant div 24.            *)
(***************************************************************************)
EXTENDS Integers, Sequences, FiniteSets

VARIABLES
    seed,      \* the module-level generator state (line 31)
    team,      \* useState(TEAMS[0]); in SpecGen the team argument of the call
    env,       \* useState(ENVS[1]);  in SpecGen the env argument of the call
    days,      \* useState(30);       in SpecGen the days argument of the call
    series,    \* the memoised result of genSeries
    agg,       \* the memoised result of aggregate
    recent,    \* the memoised recent-defects rows
    now,       \* the wall clock, an instant
    zone,      \* offset of the local time zone, hours
    steps,     \* number of operations performed so far
    last       \* what the last operation was and what it started from

vars == <<seed, team, env, days, series, agg, recent, now, zone, steps, last>>

-----------------------------------------------------------------------------
(* Bounds of the model *)

\* UI events explored from the first render
MaxSteps == 2
\* direct genSeries calls explored in SpecGen
MaxGenCalls == 1
\* largest days argument of a direct genSeries call in SpecGen
MaxGenDays == 3
\* rnd calls already made when a direct call starts (SpecGen, SpecRnd)
MaxBurn == 3
\* the clock may tick during a build before record index 1..MaxCross
MaxCross == 1
\* number of clock ticks (hours) explored
MaxTicks == 1
\* rnd calls explored in SpecRnd
MaxRndCalls == 40
\* arguments of rnd in SpecRnd range over -MaxArg..MaxArg
MaxArg == 2
\* longest series handed to aggregate in SpecAgg
MaxAggLen == 3

-----------------------------------------------------------------------------
(* Program constants *)

TEAMS == <<"Core", "Mobile", "Web", "Payments">>
ENVS == <<"Prod", "Staging", "UAT">>
DayOptions == {7, 14, 30, 60, 90}
DefaultDays == 30
Multiplier == 16807
Modulus == 2147483647
\* a start value that is a multiple of the modulus: the generator would stay at 0
InitialSeedAtModulus == Modulus
InitialSeed == 42
RecentRows == 10

HoursPerDay == 24
\* Offsets of the local zone explored, and the clock at start-up: the last
\* hour of UTC day 100.
Zones == {0, 5}
StartNow == 100 * HoursPerDay + (HoursPerDay - 1)

Max(a, b) == IF a >= b THEN a ELSE b
Min(a, b) == IF a <= b THEN a ELSE b
SetOf(seq) == {seq[k] : k \in 1..Len(seq)}

\* F(v), with v evaluated once, before F is applied to it.
With(v, F(_)) == CHOOSE r \in {F(x) : x \in {v}} : TRUE

-----------------------------------------------------------------------------
(* Utilities, lines 26-27 *)

\* new Date() at instant t; d.setDate(d.getDate() - num): the local calendar
\* day moves back num days and the local time of day is kept.
daysAgo(num, t, z) ==
    LET local == t + z
        localDay == local \div HoursPerDay
        localHour == local % HoursPerDay
    IN  (localDay - num) * HoursPerDay + localHour - z

\* d.toISOString().slice(0,10): the calendar day of the instant in UTC.
iso(d) == d \div HoursPerDay

-----------------------------------------------------------------------------
(* The generator, lines 31-32 *)

\* seed = (seed * 16807) % 2147483647
nextSeed(s) ==
    LET q == Modulus \div Multiplier
        r == Modulus % Multiplier
        t == Multiplier * (s % q) - r * (s \div q)
    IN  IF t >= 0 THEN t ELSE t + Modulus

\* Math.floor(seed / 2147483647 * n), for 1 <= s < Modulus and 1 <= n < 2^15.
\* With s = a * 2^16 + b:  s * n = (a * n) * 2^16 + b * n,  and with
\* a * n = c1 * 2^15 + c0:  (a * n) * 2^16 = c1 * Modulus + (c1 + c0 * 2^16).
floorScale(s, n) ==
    LET a == s \div 65536
        b == s % 65536
        c1 == (a * n) \div 32768
        c0 == (a * n) % 32768
        r1 == c1 + c0 * 65536
    IN  c1 + (IF r1 >= Modulus - b * n THEN 1 ELSE 0)

\* rnd with Math.ceil in place of Math.floor
rndCeil(min, max, s) ==
    LET s1 == nextSeed(s)
    IN  [val |-> floorScale(s1, max - min + 1) + 1 + min, seed |-> s1]

\* rnd(min, max) called with the generator at s: the value returned and the
\* generator state it leaves.
rnd(min, max, s) ==
    LET s1 == nextSeed(s)
    IN  [val |-> floorScale(s1, max - min + 1) + min, seed |-> s1]

\* The generator after k further rnd calls (the value returned does not
\* influence the state).
RECURSIVE Iter(_, _)
Iter(s, k) ==
    IF k = 0 THEN s
    ELSE IF k = 1 THEN nextSeed(s)
    ELSE With(Iter(s, k \div 2), LAMBDA half : Iter(half, k - k \div 2))

-----------------------------------------------------------------------------
(* genSeries, lines 35-47 *)

\* The clock read by the callback of record i: it ticks once, before record
\* index cross, when cross is below the number of records.
clockAt(i, t0, cross) == IF i >= cross THEN t0 + 1 ELSE t0

\* line 38: the upper argument of the first draw and the value kept
sev1Max(tm) == IF tm = "Payments" THEN 2 ELSE 1
sev1Of(ev, draw) == Max(0, draw - (IF ev = "UAT" THEN 1 ELSE 0))
\* line 39
sev2Max(tm) == IF tm = "Mobile" THEN 5 ELSE 3

\* opened with sev2 added twice and sev3 left out
openedOfSlip(sev1, sev2, sev3) == sev1 + sev2 + sev2

\* line 41
openedOf(sev1, sev2, sev3) == sev1 + sev2 + sev3

\* closed with the operands of the subtraction exchanged
closedOfSwapped(opened, draw) == Max(0, draw - opened)

\* line 42
closedOf(opened, draw) == Max(0, opened - draw)

\* passed with the draw taken in tenths and no clamp
passedOfLoose(tests, k) == (tests * (75 + k * 10) + 50) \div 100

\* line 44: Math.round(tests * (0.75 + k/100)) clamped to [0, tests].  For
\* 80 <= tests <= 120 and 0 <= k <= 15 the binary64 product rounds to the same
\* integer as the exact value tests * (75 + k) / 100, halves going up.
passedOf(tests, k) == Max(0, Min(tests, (tests * (75 + k) + 50) \div 100))

\* the callback with the last draw taken from the state before the fifth,
\* so that a day advances the generator by five steps
genDayReuse(i, n, tm, ev, s, t, z) ==
    LET date == daysAgo(n - 1 - i, t, z)
        r1 == rnd(0, sev1Max(tm), s)
        sev1 == sev1Of(ev, r1.val)
        r2 == rnd(0, sev2Max(tm), r1.seed)
        r3 == rnd(1, 8, r2.seed)
        opened == openedOf(sev1, r2.val, r3.val)
        r4 == rnd(0, 3, r3.seed)
        r5 == rnd(0, 40, r4.seed)
        tests == 80 + r5.val
        r6 == rnd(0, 15, r4.seed)
    IN  [rec |-> [date |-> iso(date), opened |-> opened,
                  closed |-> closedOf(opened, r4.val), sev1 |-> sev1,
                  sev2 |-> r2.val, sev3 |-> r3.val, tests |-> tests,
                  passed |-> passedOf(tests, r6.val)],
         seed |-> r5.seed]

\* The callback of range(days).map for index i, lines 37-45, started with the
\* generator at s and the clock at t: the record and the generator state left.
genDay(i, n, tm, ev, s, t, z) ==
    LET date == daysAgo(n - 1 - i, t, z)
        r1 == rnd(0, sev1Max(tm), s)
        sev1 == sev1Of(ev, r1.val)
        r2 == rnd(0, sev2Max(tm), r1.seed)
        r3 == rnd(1, 8, r2.seed)
        opened == openedOf(sev1, r2.val, r3.val)
        r4 == rnd(0, 3, r3.seed)
        r5 == rnd(0, 40, r4.seed)
        tests == 80 + r5.val
        r6 == rnd(0, 15, r5.seed)
    IN  [rec |-> [date |-> iso(date), opened |-> opened,
                  closed |-> closedOf(opened, r4.val), sev1 |-> sev1,
                  sev2 |-> r2.val, sev3 |-> r3.val, tests |-> tests,
                  passed |-> passedOf(tests, r6.val)],
         seed |-> r6.seed]

\* range(days).map(...) (lines 28, 36) over the indices lo..hi-1: the callbacks run in
\* index order, each starting from the generator state the one before it
\* left.  The range is halved only to keep the evaluation shallow.
RECURSIVE genRange(_, _, _, _, _, _, _, _, _)
genRange(lo, hi, n, tm, ev, s, t0, cross, z) ==
    IF hi <= lo THEN [series |-> <<>>, seed |-> s]
    ELSE IF hi = lo + 1
    THEN With(genDay(lo, n, tm, ev, s, clockAt(lo, t0, cross), z),
              LAMBDA d : [series |-> <<d.rec>>, seed |-> d.seed])
    ELSE LET mid == (lo + hi) \div 2
         IN  With(genRange(lo, mid, n, tm, ev, s, t0, cross, z),
                  LAMBDA left :
             With(genRange(mid, hi, n, tm, ev, left.seed, t0, cross, z),
                  LAMBDA right :
             [series |-> left.series \o right.series, seed |-> right.seed]))

\* genSeries(days, {team, env}) started with the generator at s and the clock
\* at t0: the series returned and the generator state left.
genSeries(n, tm, ev, s, t0, cross, z) ==
    genRange(0, n, n, tm, ev, s, t0, cross, z)

-----------------------------------------------------------------------------
(* aggregate, lines 49-63 *)

ZeroTotals == [open |-> 0, closed |-> 0, sev1 |-> 0, sev2 |-> 0, sev3 |-> 0,
               tests |-> 0, passed |-> 0]

\* the reducer with closed fed from opened
addDaySlip(acc, d) ==
    [open |-> acc.open + d.opened, closed |-> acc.closed + d.opened,
     sev1 |-> acc.sev1 + d.sev1, sev2 |-> acc.sev2 + d.sev2,
     sev3 |-> acc.sev3 + d.sev3, tests |-> acc.tests + d.tests,
     passed |-> acc.passed + d.passed]

\* the reducer, lines 50-58
addDay(acc, d) ==
    [open |-> acc.open + d.opened, closed |-> acc.closed + d.closed,
     sev1 |-> acc.sev1 + d.sev1, sev2 |-> acc.sev2 + d.sev2,
     sev3 |-> acc.sev3 + d.sev3, tests |-> acc.tests + d.tests,
     passed |-> acc.passed + d.passed]

\* series.reduce(reducer, initial) over the elements lo..hi-1 (1-based),
\* left to right; the range is halved only to keep the evaluation shallow.
RECURSIVE reduce(_, _, _, _)
reduce(sq, lo, hi, acc) ==
    IF hi <= lo THEN acc
    ELSE IF hi = lo + 1 THEN addDay(acc, sq[lo])
    ELSE LET mid == (lo + hi) \div 2
         IN  With(reduce(sq, lo, mid, acc),
                  LAMBDA left : reduce(sq, mid, hi, left))

\* line 60: a ratio is kept as numerator and denominator
passRateOf(totals) ==
    IF totals.tests # 0 THEN [num |-> totals.passed, den |-> totals.tests]
    ELSE [num |-> 0, den |-> 1]

\* line 61, in hundredths of a day: max(0.3, 1.2 + 0.2 sev1 + 0.05 sev2)
mttrOf(totals) == Max(30, 120 + totals.sev1 * 20 + totals.sev2 * 5)

aggregate(sq) ==
    LET totals == reduce(sq, 1, Len(sq) + 1, ZeroTotals)
    IN  [totals |-> totals, passRate |-> passRateOf(totals),
         mttrDays |-> mttrOf(totals)]

-----------------------------------------------------------------------------
(* The App component, lines 65-114, and the Filters handlers, lines 232-256 *)

Titles == <<"Crash on checkout", "Login 2FA intermittently failing",
            "Layout shift on product page", "Slow API response /orders",
            "Missing aria-label on modal close", "iOS scroll freeze in cart",
            "Incorrect totals with discounts",
            "Search suggestions overlap header",
            "Image lazy-load not triggering", "Payment webhook retries exceed">>
Owners == <<"Alex", "Priya", "Sam", "Jordan", "Lee">>
Statuses == <<"Open", "In Progress", "In Review">>

\* The callback of range(10).map for index i, lines 94-111: two draws, the
\* id first and the age of the defect second.
recentRow(i, s, t, z) ==
    LET r1 == rnd(0, 8999, s)
        r2 == rnd(0, 7, r1.seed)
    IN  [row |-> [id |-> 1000 + r1.val, title |-> Titles[i + 1],
                  sev |-> IF i < 2 THEN "Sev 1"
                          ELSE IF i < 6 THEN "Sev 2" ELSE "Sev 3",
                  owner |-> Owners[(i % 5) + 1],
                  status |-> Statuses[(i % 3) + 1],
                  created |-> iso(daysAgo(r2.val, t, z))],
         seed |-> r2.seed]

\* range(10).map(...) over the indices lo..hi-1, in index order
RECURSIVE recentRange(_, _, _, _, _)
recentRange(lo, hi, s, t, z) ==
    IF hi <= lo THEN [rows |-> <<>>, seed |-> s]
    ELSE IF hi = lo + 1
    THEN With(recentRow(lo, s, t, z),
              LAMBDA d : [rows |-> <<d.row>>, seed |-> d.seed])
    ELSE LET mid == (lo + hi) \div 2
         IN  With(recentRange(lo, mid, s, t, z), LAMBDA left :
             With(recentRange(mid, hi, left.seed, t, z), LAMBDA right :
             [rows |-> left.rows \o right.rows, seed |-> right.seed]))

\* the recent useMemo callback, lines 92-114
genRecent(s, t, z) == recentRange(0, RecentRows, s, t, z)

\* What an operation records of itself.
Op(name, s0, t0, cross, min, max, val) ==
    [op |-> name, seed0 |-> s0, now0 |-> t0, cross |-> cross,
     min |-> min, max |-> max, val |-> val]

\* Where the clock may tick during a build of n records: nowhere (n), or
\* before one of the records 1..MaxCross while ticks remain.
CrossPoints(n) ==
    {n} \cup (IF now < StartNow + MaxTicks
              THEN {c \in 1..MaxCross : c < n} ELSE {})

clockAfter(t0, n, cross) == IF cross < n THEN t0 + 1 ELSE t0

\* One render in which the series memo (deps team, env, days) is stale: the
\* series is rebuilt, then the totals; the recent memo (deps team, env) is
\* rebuilt after them when withRecent.  Hooks run in source order: line 74,
\* line 75, line 92.
Render(name, tm, ev, n, s0, cross, withRecent) ==
    \E g \in {genSeries(n, tm, ev, s0, now, cross, zone)} :
    \E r \in {genRecent(g.seed, clockAfter(now, n, cross), zone)} :
        /\ team' = tm
        /\ env' = ev
        /\ days' = n
        /\ series' = g.series
        /\ agg' = aggregate(g.series)
        /\ recent' = IF withRecent THEN r.rows ELSE recent
        /\ seed' = IF withRecent THEN r.seed ELSE g.seed
        /\ now' = clockAfter(now, n, cross)
        /\ last' = Op(name, s0, now, cross, 0, 0, 0)

\* onChange of the Team select, line 238, and the render it causes
SetTeam(t) ==
    /\ steps < MaxSteps
    /\ t # team
    /\ \E cross \in CrossPoints(days) :
          Render("setTeam", t, env, days, seed, cross, TRUE)
    /\ steps' = steps + 1
    /\ UNCHANGED zone

\* onChange of the Environment select, line 244, and the render it causes
SetEnv(e) ==
    /\ steps < MaxSteps
    /\ e # env
    /\ \E cross \in CrossPoints(days) :
          Render("setEnv", team, e, days, seed, cross, TRUE)
    /\ steps' = steps + 1
    /\ UNCHANGED zone

\* the handler as it would be with days missing from the deps of line 74
SetDaysStale(n) ==
    /\ steps < MaxSteps
    /\ n # days
    /\ days' = n
    /\ steps' = steps + 1
    /\ last' = Op("setDays", seed, now, n, 0, 0, 0)
    /\ UNCHANGED <<seed, team, env, series, agg, recent, now, zone>>

\* onChange of the Date Range select, line 250, and the render it causes
SetDays(n) ==
    /\ steps < MaxSteps
    /\ n # days
    /\ \E cross \in CrossPoints(n) :
          Render("setDays", team, env, n, seed, cross, FALSE)
    /\ steps' = steps + 1
    /\ UNCHANGED zone

\* a refresh that remounts App without evaluating the module again
RefreshKeepSeed ==
    /\ steps < MaxSteps
    /\ \E cross \in CrossPoints(DefaultDays) :
          Render("refresh", TEAMS[1], ENVS[2], DefaultDays, seed, cross, TRUE)
    /\ steps' = steps + 1
    /\ UNCHANGED zone

\* onClick of "Refresh data", line 255: the page reloads, the module is
\* evaluated again (seed = 42, line 31) and App mounts with its defaults.
Refresh ==
    /\ steps < MaxSteps
    /\ \E cross \in CrossPoints(DefaultDays) :
          Render("refresh", TEAMS[1], ENVS[2], DefaultDays, InitialSeed,
                 cross, TRUE)
    /\ steps' = steps + 1
    /\ UNCHANGED zone

\* The clock advances between events.
Tick ==
    /\ now < StartNow + MaxTicks
    /\ now' = now + 1
    /\ UNCHANGED <<seed, team, env, days, series, agg, recent, zone, steps, last>>

\* The state after the first render of a freshly loaded page.
Init ==
    /\ zone \in Zones
    /\ now = StartNow
    /\ team = TEAMS[1]
    /\ env = ENVS[2]
    /\ days = DefaultDays
    /\ steps = 0
    /\ last = Op("load", InitialSeed, StartNow, DefaultDays, 0, 0, 0)
    /\ \E g \in {genSeries(DefaultDays, TEAMS[1], ENVS[2], InitialSeed,
                            StartNow, DefaultDays, zone)} :
       \E r \in {genRecent(g.seed, StartNow, zone)} :
          /\ series = g.series
          /\ agg = aggregate(g.series)
          /\ recent = r.rows
          /\ seed = r.seed

Next ==
    \/ \E t \in SetOf(TEAMS) : SetTeam(t)
    \/ \E e \in SetOf(ENVS) : SetEnv(e)
    \/ \E n \in DayOptions : SetDays(n)
    \/ Refresh
    \/ Tick

Spec == Init /\ [][Next]_vars

-----------------------------------------------------------------------------
(* genSeries called directly, with any arguments, at any generator state    *)
(* that MaxBurn or fewer earlier rnd calls leave.                           *)

InitGen ==
    /\ seed \in {Iter(InitialSeed, k) : k \in 0..MaxBurn}
    /\ zone \in Zones
    /\ now = StartNow
    /\ team = TEAMS[1]
    /\ env = ENVS[2]
    /\ days = 0
    /\ series = <<>>
    /\ agg = aggregate(<<>>)
    /\ recent = <<>>
    /\ steps = 0
    /\ last = Op("start", seed, now, 0, 0, 0, 0)

GenCall(n, tm, ev, cross) ==
    /\ steps < MaxGenCalls
    /\ \E g \in {genSeries(n, tm, ev, seed, now, cross, zone)} :
          /\ series' = g.series
          /\ seed' = g.seed
    /\ team' = tm
    /\ env' = ev
    /\ days' = n
    /\ now' = clockAfter(now, n, cross)
    /\ steps' = steps + 1
    /\ last' = Op("genSeries", seed, now, cross, 0, 0, 0)
    /\ UNCHANGED <<agg, recent, zone>>

NextGen ==
    \/ \E n \in 0..MaxGenDays, tm \in SetOf(TEAMS), ev \in SetOf(ENVS) :
          \E cross \in CrossPoints(n) : GenCall(n, tm, ev, cross)
    \/ Tick

SpecGen == InitGen /\ [][NextGen]_vars

-----------------------------------------------------------------------------
(* rnd called directly, one call after another from the initial seed.       *)

\* the argument pairs the program uses (lines 38-44, 95, 110) and every
\* pair min <= max within -MaxArg..MaxArg
RndArgs ==
    {<<0, 1>>, <<0, 2>>, <<0, 3>>, <<0, 5>>, <<1, 8>>, <<0, 40>>, <<0, 15>>,
     <<0, 8999>>, <<0, 7>>}
    \cup {p \in (-MaxArg..MaxArg) \X (-MaxArg..MaxArg) : p[1] <= p[2]}

InitRnd ==
    /\ seed = InitialSeed
    /\ zone = 0
    /\ now = StartNow
    /\ team = TEAMS[1]
    /\ env = ENVS[2]
    /\ days = 0
    /\ series = <<>>
    /\ agg = aggregate(<<>>)
    /\ recent = <<>>
    /\ steps = 0
    /\ last = Op("start", seed, now, 0, 0, 0, 0)

RndCall(min, max) ==
    /\ steps < MaxRndCalls
    /\ \E r \in {rnd(min, max, seed)} :
          /\ seed' = r.seed
          /\ last' = Op("rnd", seed, now, 0, min, max, r.val)
    /\ steps' = steps + 1
    /\ UNCHANGED <<team, env, days, series, agg, recent, now, zone>>

NextRnd == \E p \in RndArgs : RndCall(p[1], p[2])

SpecRnd == InitRnd /\ [][NextRnd]_vars

-----------------------------------------------------------------------------
(* aggregate called directly on any series over a pool of records.          *)

Rec(o, c, s1, s2, s3, t, p) ==
    [date |-> 0, opened |-> o, closed |-> c, sev1 |-> s1, sev2 |-> s2,
     sev3 |-> s3, tests |-> t, passed |-> p]

RecordPool ==
    {Rec(5, 2, 1, 2, 2, 100, 80), Rec(3, 3, 0, 1, 2, 90, 81),
     Rec(0, 0, 0, 0, 0, 0, 0), Rec(15, 12, 2, 5, 8, 120, 108),
     Rec(1, 0, 0, 0, 1, 80, 60)}

InitAgg ==
    /\ series \in UNION {[1..k -> RecordPool] : k \in 0..MaxAggLen}
    /\ seed = InitialSeed
    /\ zone = 0
    /\ now = StartNow
    /\ team = TEAMS[1]
    /\ env = ENVS[2]
    /\ days = Len(series)
    /\ agg = [totals |-> ZeroTotals, passRate |-> [num |-> 0, den |-> 1],
              mttrDays |-> 0]
    /\ recent = <<>>
    /\ steps = 0
    /\ last = Op("start", seed, now, 0, 0, 0, 0)

Aggregate ==
    /\ steps = 0
    /\ agg' = aggregate(series)
    /\ steps' = 1
    /\ last' = Op("aggregate", seed, now, 0, 0, 0, 0)
    /\ UNCHANGED <<seed, team, env, days, series, recent, now, zone>>

NextAgg == Aggregate

SpecAgg == InitAgg /\ [][NextAgg]_vars

-----------------------------------------------------------------------------
(* Properties *)

Records == SetOf(series)

\* C1: every rnd(min, max) with min <= max, at every generator state reached
\* from the initial seed by earlier rnd calls, returns an integer r with
\* min <= r <= max; it never returns max + 1.
RndInRange ==
    last.op = "rnd" =>
        /\ last.val \in Int
        /\ last.min <= last.val
        /\ last.val <= last.max

\* a call whose range has several values has returned the largest of them
RndReturnsMax ==
    /\ last.op = "rnd"
    /\ last.min < last.max
    /\ last.val = last.max

\* C2: every record of a generated series has opened = sev1 + sev2 + sev3.
OpenedIsSeveritySum ==
    \A r \in Records : r.opened = r.sev1 + r.sev2 + r.sev3

\* a series built for Payments on UAT holds a record whose sev1 survived the
\* UAT deduction
OpenedWithSev1 ==
    /\ team = "Payments"
    /\ env = "UAT"
    /\ \E r \in Records : r.sev1 = 1 /\ r.sev2 > 0

\* C3: every record of a generated series has 0 <= passed <= tests, tests
\* being 80 plus a draw from 0..40 and passed the rounded product of tests
\* and 0.75 plus a draw from 0..15 in hundredths.
PassedWithinTests ==
    \A r \in Records :
        /\ 0 <= r.passed
        /\ r.passed <= r.tests
        /\ r.tests \in 80..120
        /\ \E k \in 0..15 : r.passed = (r.tests * (75 + k) + 50) \div 100

\* a record drew a test count near the top and the largest pass share
PassedAtTop ==
    \E r \in Records : r.tests >= 115 /\ r.passed * 100 >= r.tests * 90 - 50

\* C4: every record of a generated series has 0 <= closed <= opened.
ClosedWithinOpened ==
    \A r \in Records : 0 <= r.closed /\ r.closed <= r.opened

\* a record whose draw exceeded its opened count, so that closed was held at 0
ClosedHeldAtZero ==
    \E r \in Records : r.opened <= 2 /\ r.closed = 0

\* C5: genSeries(days, filters) returns exactly days records, oldest first,
\* record i carrying the date of today minus (days - 1 - i) days, today being
\* the local calendar day on which the call started.
DatesEndToday ==
    last.op = "genSeries" =>
        /\ Len(series) = days
        /\ \A k \in 1..Len(series) :
              series[k].date
                  = ((last.now0 + zone) \div HoursPerDay) - (days - k)

\* C6: one genSeries(days, filters) call advances the generator by exactly
\* 6 * days steps, whatever team and env are: record i takes draws
\* 6i+1 .. 6i+6 for sev1, sev2, sev3, closed, tests, passed in that order;
\* with days = 0 the series is empty and the generator is left as it was.
SixDrawsPerDay ==
    last.op = "genSeries" =>
        /\ Len(series) = days
        /\ seed = Iter(last.seed0, 6 * days)
        /\ days = 0 => (series = <<>> /\ seed = last.seed0)
        /\ \A k \in 1..Len(series) :
              LET base == Iter(last.seed0, 6 * (k - 1))
                  r == series[k]
              IN  /\ r.sev1 = sev1Of(env, floorScale(Iter(base, 1),
                                                     sev1Max(team) + 1))
                  /\ r.sev2 = floorScale(Iter(base, 2), sev2Max(team) + 1)
                  /\ r.sev3 = 1 + floorScale(Iter(base, 3), 8)
                  /\ r.closed
                        = Max(0, r.opened - floorScale(Iter(base, 4), 4))
                  /\ r.tests = 80 + floorScale(Iter(base, 5), 41)
                  /\ r.passed
                        = passedOf(r.tests, floorScale(Iter(base, 6), 16))

\* a direct call for several days has returned
SeveralDaysGenerated ==
    /\ last.op = "genSeries"
    /\ days >= 2
    /\ Len(series) = days
    /\ seed # last.seed0

\* a series without its dates, and the first genSeries run of a process
Numeric(sq) == [k \in 1..Len(sq) |-> [sq[k] EXCEPT !.date = 0]]
FirstLoad ==
    genSeries(DefaultDays, TEAMS[1], ENVS[2], InitialSeed, StartNow,
              DefaultDays, 0)

\* C7: the series built right after a process start is the same at every
\* start: after a reload (Refresh) every numeric field of every record equals
\* that of the first load for Core, Staging, 30.
RefreshReproducesFirstLoad ==
    last.op \in {"load", "refresh"} =>
        /\ team = TEAMS[1] /\ env = ENVS[2] /\ days = DefaultDays
        /\ Numeric(series) = Numeric(FirstLoad.series)
        /\ agg = aggregate(FirstLoad.series)

\* a reload after the selection had been changed
RefreshedAfterChange ==
    /\ last.op = "refresh"
    /\ steps = 2
    /\ Len(series) = DefaultDays

\* the sum of field f over a series
RECURSIVE SumUpTo(_, _, _)
SumUpTo(sq, k, f) == IF k = 0 THEN 0 ELSE sq[k][f] + SumUpTo(sq, k - 1, f)
Sum(sq, f) == SumUpTo(sq, Len(sq), f)

\* C8: aggregate(series) returns the field-wise sums of the series (zero for
\* the empty series), passRate = passed / tests when the tests total is
\* positive and 0 otherwise, and mttrDays = max(0.3, 1.2 + 0.2 sev1
\* + 0.05 sev2) (kept in hundredths); it leaves the series and the generator
\* as they were.
AggregateSums ==
    last.op = "aggregate" =>
        /\ agg.totals = [open |-> Sum(series, "opened"),
                         closed |-> Sum(series, "closed"),
                         sev1 |-> Sum(series, "sev1"),
                         sev2 |-> Sum(series, "sev2"),
                         sev3 |-> Sum(series, "sev3"),
                         tests |-> Sum(series, "tests"),
                         passed |-> Sum(series, "passed")]
        /\ IF Sum(series, "tests") > 0
           THEN agg.passRate.num * Sum(series, "tests")
                    = Sum(series, "passed") * agg.passRate.den
                /\ agg.passRate.den > 0
           ELSE agg.passRate.num = 0 /\ agg.passRate.den > 0
        /\ agg.mttrDays = Max(30, 120 + 20 * Sum(series, "sev1")
                                      + 5 * Sum(series, "sev2"))
        /\ series = <<>> => /\ agg.totals = ZeroTotals
                            /\ agg.passRate.num = 0
                            /\ agg.mttrDays = 120
        /\ seed = last.seed0
        /\ Len(series) = days

\* aggregate has run on a series of several records that counts tests
AggregatedSeveral ==
    /\ last.op = "aggregate"
    /\ Len(series) >= 2
    /\ agg.totals.tests > 0
    /\ agg.totals.closed < agg.totals.open

\* C9: after any sequence of team, environment and day-window changes the
\* series and totals shown are those of the current selection: each change
\* ran genSeries once with the newly selected days, team and env and then
\* aggregate on its result.
SeriesNeverStale ==
    /\ Len(series) = days
    /\ series = genSeries(days, team, env, last.seed0, last.now0, last.cross,
                          zone).series
    /\ agg = aggregate(series)
    /\ seed = Iter(last.seed0,
                   6 * days + (IF last.op = "setDays" THEN 0
                               ELSE 2 * RecentRows))

\* the day window was changed after another filter had been changed
DaysChangedAfterTeam ==
    /\ last.op = "setDays"
    /\ steps = 2
    /\ team # TEAMS[1]
    /\ days = 7

\* C10: in every reachable state the seed is an integer with
\* 1 <= seed <= 2147483646: never 0, never the modulus.
SeedInRange ==
    /\ seed \in Int
    /\ 1 <= seed
    /\ seed <= Modulus - 1

\* the generator has run through two rebuilds of series and table
SeedAfterRebuilds ==
    /\ steps = 2
    /\ last.op \in {"setTeam", "setEnv"}
    /\ seed # InitialSeed

=============================================================================
